---- MODULE Spec2Model ----
(***************************************************************************)
(* The intake form's client-side page script (src/BACKEND_FIXED.md, lines  *)
(* 239-677): the VoiceRecorder, the FileUploader and the submit handler    *)
(* that sequences their uploads before the form POST, together with the    *)
(* browser facilities they use (MediaRecorder, animation frames, interval  *)
(* timers, fetch).  The script runs on the single-threaded event loop: an  *)
(* action of this module is one task of that loop, i.e. an event handler   *)
(* or the continuation of an async function from the completion of what it *)
(* awaited up to its next await.                                           *)
(***************************************************************************)
EXTENDS Integers, Sequences, FiniteSets, TLC

(***************************************************************************)
(* Bounds of the model.                                                    *)
(***************************************************************************)
\* submit handler activations the model has room for
MaxRuns == 2
\* Spec: files offered, longest candidate list, submit events, recordings
\* started
MaxOffered == 1
MaxBatch == 1
MaxSubmits == 2
MaxTakes == 1
\* SpecRecorder: recordings started, record clicks waiting in init() at one
\* time, timeslice chunks with data per recording, seconds that pass after a
\* start(), submit events
MaxTakesRec == 2
MaxWaitingRec == 1
MaxChunksRec == 1
MaxSecsRec == 1
MaxSubmitsRec == 1
\* SpecTimers: the same for the recorder alone
MaxTakesTm == 2
MaxWaitingTm == 1
MaxChunksTm == 1
MaxSecsTm == 1
\* SpecUploader: files offered, longest candidate list, submit events
MaxOfferedUp == 3
MaxBatchUp == 2
MaxSubmitsUp == 2
\* SpecSelection: files offered (enough to pass the cap), longest candidate list
MaxOfferedSel == 11
MaxBatchSel == 3
\* SpecForm: files offered, longest candidate list, submit events, recordings
\* started, submit attempts blocked by the form's validation
MaxOfferedFm == 1
MaxBatchFm == 1
MaxSubmitsFm == 1
MaxTakesFm == 1
MaxBlocked == 1
MaxRequests == 2
MaxOfferedLv == 1
MaxSubmitsLv == 1
MaxTakesLv == 1
MaxTakesUl == 1
MaxSubmitsUl == 1
MaxTakesCk == 2
MaxWaitingCk == 2
MaxChunksCk == 1
MaxRequestsEm == 1
MaxUrlsEm == 2

(***************************************************************************)
(* Program constants.                                                      *)
(***************************************************************************)
\* FileUploader.addFiles: this.files.length < 10
MaxFiles == 10

\* null of an object-valued field, and of a numeric handle or session id
NULL == [null |-> TRUE]
None == 0

\* A MIME type is the sequence of its parts: "image/png" is <<"image","/","png">>.
ImagePrefix == <<"image", "/">>
ImagePng == <<"image", "/", "png">>
TextPlain == <<"text", "/", "plain">>
AudioWebm == <<"audio", "/", "webm">>
AudioMp4 == <<"audio", "/", "mp4">>
AudioOgg == <<"audio", "/", "ogg">>
AudioWav == <<"audio", "/", "wav">>

\* The types a MediaRecorder may report as its mimeType
AudioTypes == {AudioWebm, AudioMp4, AudioOgg, AudioWav}

\* String.prototype.includes of one part, on the part sequences
Includes(s, part) == \E i \in 1..Len(s) : s[i] = part

\* String.prototype.startsWith on the part sequences
StartsWith(s, p) == Len(s) >= Len(p) /\ SubSeq(s, 1, Len(p)) = p

\* Array.prototype.splice(index, 1), index counted from 1 here; an index past
\* the end removes nothing
Splice1(s, i) ==
  IF i >= 1 /\ i <= Len(s)
  THEN SubSeq(s, 1, i - 1) \o SubSeq(s, i + 1, Len(s))
  ELSE s

\* The labels of the submit button
LabelIdle == "Submit Project Inquiry"
LabelUploading == "Uploading files..."
LabelImages == "Uploading images..."
LabelSending == "Sending..."
ThankYou == "/thank-you.html"
FormPage == "/"

VARIABLES
  \* ---- VoiceRecorder fields
  mediaRecorder,   \* this.mediaRecorder: None or the id of a capture session
  audioChunks,     \* this.audioChunks
  audioBlob,       \* this.audioBlob: NULL or a blob record
  audioUrl,        \* this.audioUrl: NULL or the object URL of a blob
  isRecording,     \* this.isRecording
  uploadedUrl,     \* this.uploadedUrl
  analyser,        \* this.analyser: None or the session whose stream it taps
  animationId,     \* this.animationId: None or a frame request handle
  timerInterval,   \* this.timerInterval: None or an interval handle
  \* ---- browser state the recorder works on
  sessions,        \* capture sessions created by init(): id -> state
  waiting,         \* record clicks suspended in init() at getUserMedia
  stopTasks,       \* capture sessions whose stop task is queued
  rafPending,      \* frame request handles whose callback is scheduled
  intervals,       \* interval handles that are active
  elapsed,         \* whole seconds passed since this.startTime
  timeLabel,       \* text of #recording-time
  canvas,          \* what the waveform canvas shows
  recUI,           \* #record-btn, #recording-status, #audio-preview, #audio-player
  takes,           \* number of start() calls so far
  afterClear,      \* history: clear() was called and start() not since
  \* ---- FileUploader fields and its preview
  files,           \* this.files
  uploadedUrls,    \* this.uploadedUrls
  preview,         \* #file-preview as built by updateUI
  offered,         \* number of files offered so far
  removed,         \* history: the files removed from the selection
  \* ---- the submit handler and the page
  run,             \* activations of the submit handler: slot -> frame
  net,             \* fetch requests in flight
  submitDisabled,  \* submitBtn.disabled
  submitText,      \* submitBtn.textContent
  alerts,          \* alert() messages shown so far
  location,        \* window.location.href
  submits,         \* number of submit events so far
  lastPost,        \* history: how the latest answered POST ended
  form,            \* the form: whether its required fields are filled, and the
                   \* submit attempts its validation has blocked
  \* ---- the serverless functions behind /api/upload and /api/submit
  server           \* their activations, the blob store and the email provider

recorderVars == <<mediaRecorder, audioChunks, audioBlob, audioUrl, isRecording,
                  uploadedUrl, analyser, animationId, timerInterval>>
browserVars == <<sessions, waiting, stopTasks, rafPending, intervals, elapsed,
                 timeLabel, canvas, recUI, takes, afterClear>>
uploaderVars == <<files, uploadedUrls, preview, offered, removed>>
pageVars == <<run, net, submitDisabled, submitText, alerts, location, submits,
              lastPost, form>>
serverVars == <<server>>
vars == <<recorderVars, browserVars, uploaderVars, pageVars, serverVars>>

(***************************************************************************)
(* Data.                                                                   *)
(***************************************************************************)
FileTypes == {ImagePng, TextPlain}

\* The public URL the storage endpoint returns for a stored object
\* (api/upload.js: one blob per request, named after its type)
Url(kind, id) == [kind |-> kind, of |-> id]

\* Candidate lists of one drop or file-input change: 1..maxLen files, numbered
\* on from the files offered before, each of any type
CandidateLists(maxLen) ==
  UNION { { [i \in 1..n |-> [id |-> offered + i, type |-> t[i]]] :
              t \in [1..n -> FileTypes] } : n \in 1..maxLen }

Min(a, b) == IF a < b THEN a ELSE b

(***************************************************************************)
(* FileUploader.                                                           *)
(***************************************************************************)
\* addFiles: the test of one candidate against the selection so far
AdmitNoCap(file, fs) == StartsWith(file.type, ImagePrefix)
Admit(file, fs) == StartsWith(file.type, ImagePrefix) /\ Len(fs) < MaxFiles

\* addFiles: the loop over the candidates
RECURSIVE AddLoop(_, _)
AddLoop(fs, cands) ==
  IF cands = <<>> THEN fs
  ELSE AddLoop(IF Admit(Head(cands), fs) THEN Append(fs, Head(cands)) ELSE fs,
               Tail(cands))

\* updateUI: the count label
CountLabel(n) ==
  ToString(n) \o " file" \o (IF n > 1 THEN "s" ELSE "") \o " selected"

\* updateUI: the preview region built from this.files; an empty selection
\* hides the region and empties it
Render(fs) ==
  IF Len(fs) = 0
  THEN [hidden |-> TRUE, count |-> "", buttons |-> 0]
  ELSE [hidden |-> FALSE, count |-> CountLabel(Len(fs)), buttons |-> Len(fs)]

\* A change of the selection while a submit handler is active is noted in
\* its frame (history only: the script keeps no such flag)
Touch(rs) == [r \in DOMAIN rs |->
               IF rs[r].pc = "idle" THEN rs[r] ELSE [rs[r] EXCEPT !.touched = TRUE]]

addFiles(newFiles) ==
  /\ location = FormPage
  /\ files' = AddLoop(files, newFiles)
  /\ preview' = Render(files')
  /\ offered' = offered + Len(newFiles)
  /\ run' = IF files' = files THEN run ELSE Touch(run)
  /\ UNCHANGED <<uploadedUrls, removed, recorderVars, browserVars>>
  /\ UNCHANGED <<net, submitDisabled, submitText, alerts, location, submits, lastPost, form, server>>

\* removeFile(index): the click on the remove button of thumbnail i
removeFile(i) ==
  /\ location = FormPage
  /\ i \in 1..preview.buttons
  /\ files' = Splice1(files, i)
  /\ uploadedUrls' = Splice1(uploadedUrls, i)
  /\ preview' = Render(files')
  /\ run' = Touch(run)
  /\ removed' = removed \cup {files[i]}
  /\ UNCHANGED <<offered, recorderVars, browserVars>>
  /\ UNCHANGED <<net, submitDisabled, submitText, alerts, location, submits, lastPost, form, server>>

(***************************************************************************)
(* The submit handler.                                                     *)
(***************************************************************************)
Runs == 1..MaxRuns

\* The frame of a handler activation: where it waits, its local audioUrl, the
\* position of uploadAll's iterator, and (history) the uploads it has seen
\* complete, whether the selection changed since the submit event,
\* whether there was an artifact at the submit event, and the values it has
\* assigned to submitBtn.textContent
Frame0 == [pc |-> "idle", audioUrl |-> NULL, idx |-> 0, log |-> <<>>,
           touched |-> FALSE, hadBlob |-> FALSE, labels |-> <<>>]

\* The frame of an activation at the submit event, 'Uploading files...'
\* assigned
FrameAt(blob) ==
  [Frame0 EXCEPT !.hadBlob = (blob # NULL), !.labels = <<LabelUploading>>]

\* The separator of join(','), a part of the joined text like the URLs
Comma == [kind |-> ",", of |-> 0]

\* Array.prototype.join(','): the URLs with a comma between neighbours
RECURSIVE Join(_)
Join(urls) ==
  IF Len(urls) = 0 THEN <<>>
  ELSE IF Len(urls) = 1 THEN <<urls[1]>>
  ELSE <<urls[1], Comma>> \o Join(Tail(urls))

\* The form data of the POST, field name -> value (a sequence of parts): the
\* native fields, and the two URL fields only when there is something to send
PayloadAlways(aUrl, imageUrls) ==
  [f \in {"fields", "audio-url", "image-urls"} |->
     CASE f = "fields" -> <<"native">>
       [] f = "audio-url" -> <<aUrl>>
       [] f = "image-urls" -> Join(imageUrls)]
Payload(aUrl, imageUrls) ==
  [f \in {"fields"} \cup (IF aUrl # NULL THEN {"audio-url"} ELSE {})
                    \cup (IF Len(imageUrls) > 0 THEN {"image-urls"} ELSE {}) |->
     CASE f = "fields" -> <<"native">>
       [] f = "audio-url" -> <<aUrl>>
       [] f = "image-urls" -> Join(imageUrls)]

\* 'Sending...' and the fetch of /api/submit
SendPhaseHeldUrl(r, fr, n, imageUrls) ==
  /\ submitText' = LabelSending
  /\ net' = n \cup {[run |-> r, kind |-> "submit",
                     body |-> Payload(IF fr.audioUrl # NULL THEN fr.audioUrl
                                      ELSE uploadedUrl, imageUrls)]}
  /\ run' = [run EXCEPT ![r] = [fr EXCEPT !.pc = "sending",
                                            !.labels = Append(@, LabelSending)]]
SendPhase(r, fr, n, imageUrls) ==
  /\ submitText' = LabelSending
  /\ net' = n \cup {[run |-> r, kind |-> "submit",
                     body |-> Payload(fr.audioUrl, imageUrls)]}
  /\ run' = [run EXCEPT ![r] = [fr EXCEPT !.pc = "sending",
                                            !.labels = Append(@, LabelSending)]]

\* uploadAll: the head of "for (const file of this.files)", entered with the
\* iterator at fr.idx and this.uploadedUrls = ups; either the fetch for the
\* next file, or the return of this.uploadedUrls to the handler
UploadNext(r, fr, n, ups, text) ==
  /\ uploadedUrls' = ups
  /\ IF fr.idx < Len(files)
     THEN /\ submitText' = text
          /\ net' = n \cup {[run |-> r, kind |-> "image", body |-> files[fr.idx + 1]]}
          /\ run' = [run EXCEPT ![r] = [fr EXCEPT !.pc = "images", !.idx = fr.idx + 1]]
     ELSE SendPhase(r, fr, n, ups)

\* "Upload images": uploadAll() when files are selected
ImagesPhaseKeepsUrls(r, fr, n) ==
  IF Len(files) > 0
  THEN UploadNext(r, [fr EXCEPT !.idx = 0, !.labels = Append(@, LabelImages)], n,
                  uploadedUrls, LabelImages)
  ELSE /\ uploadedUrls' = uploadedUrls
       /\ SendPhase(r, fr, n, <<>>)
ImagesPhaseSkipsFirst(r, fr, n) ==
  IF Len(files) > 0
  THEN UploadNext(r, [fr EXCEPT !.idx = 1, !.labels = Append(@, LabelImages)], n,
                  <<>>, LabelImages)
  ELSE /\ uploadedUrls' = uploadedUrls
       /\ SendPhase(r, fr, n, <<>>)
ImagesPhase(r, fr, n) ==
  IF Len(files) > 0
  THEN UploadNext(r, [fr EXCEPT !.idx = 0, !.labels = Append(@, LabelImages)], n,
                  <<>>, LabelImages)
  ELSE /\ uploadedUrls' = uploadedUrls
       /\ SendPhase(r, fr, n, <<>>)

\* upload(): whether it goes on to the fetch
UploadStarts(blob) == blob # NULL

\* upload(): the extension of the file name, from the type of the artifact
ExtAlwaysWebm(type) == "webm"
Ext(type) ==
  IF Includes(type, "mp4") THEN "m4a"
  ELSE IF Includes(type, "ogg") THEN "ogg"
  ELSE "webm"

\* upload(): the fetch of /api/upload with the artifact as 'file', named
\* recording.<ext>, and the field type
AudioRequest(r, blob) ==
  [run |-> r, kind |-> "audio", body |-> blob,
   fields |-> [name |-> <<"recording", ".", Ext(blob.type)>>, type |-> "audio"]]

\* The submit event of the form.  The browser raises it only for a submit
\* button that is not disabled.
SubmitNoAwait(r) ==
  /\ location = FormPage
  /\ ~submitDisabled
  /\ run[r].pc = "idle"
  /\ \A q \in Runs : q < r => run[q].pc # "idle"
  /\ submitDisabled' = TRUE
  /\ submits' = submits + 1
  /\ IF audioBlob # NULL /\ UploadStarts(audioBlob)
     THEN ImagesPhase(r, FrameAt(audioBlob),
                      net \cup {AudioRequest(r, audioBlob)})
     ELSE ImagesPhase(r, FrameAt(audioBlob), net)
  /\ UNCHANGED <<files, preview, offered, removed, recorderVars, browserVars>>
  /\ UNCHANGED <<alerts, location, lastPost, form, server>>
SubmitNoDisable(r) ==
  /\ location = FormPage
  /\ ~submitDisabled
  /\ run[r].pc = "idle"
  /\ \A q \in Runs : q < r => run[q].pc # "idle"
  /\ submitDisabled' = submitDisabled
  /\ submits' = submits + 1
  /\ IF audioBlob # NULL /\ UploadStarts(audioBlob)
     THEN /\ submitText' = LabelUploading
          /\ net' = net \cup {AudioRequest(r, audioBlob)}
          /\ run' = [run EXCEPT ![r] = [FrameAt(audioBlob) EXCEPT !.pc = "audio"]]
          /\ uploadedUrls' = uploadedUrls
     ELSE ImagesPhase(r, FrameAt(audioBlob), net)
  /\ UNCHANGED <<files, preview, offered, removed, recorderVars, browserVars>>
  /\ UNCHANGED <<alerts, location, lastPost, form, server>>
Submit(r) ==
  /\ location = FormPage
  /\ ~submitDisabled
  /\ run[r].pc = "idle"
  /\ \A q \in Runs : q < r => run[q].pc # "idle"
  /\ submitDisabled' = TRUE
  /\ submits' = submits + 1
  /\ IF audioBlob # NULL /\ UploadStarts(audioBlob)
     THEN /\ submitText' = LabelUploading
          /\ net' = net \cup {AudioRequest(r, audioBlob)}
          /\ run' = [run EXCEPT ![r] = [FrameAt(audioBlob) EXCEPT !.pc = "audio"]]
          /\ uploadedUrls' = uploadedUrls
     ELSE ImagesPhase(r, FrameAt(audioBlob), net)
  /\ UNCHANGED <<files, preview, offered, removed, recorderVars, browserVars>>
  /\ UNCHANGED <<alerts, location, lastPost, form, server>>

\* What the storage endpoint can answer: stored, a non-success status, or no
\* answer at all (network error)
UploadOutcomes == {"ok", "fail", "neterr"}

\* upload() resumed by the answer to its fetch, and the handler resumed by
\* upload()'s result
AudioResponse(r, q, outcome) ==
  /\ location = FormPage
  /\ q \in net /\ q.run = r /\ q.kind = "audio"
  /\ run[r].pc = "audio"
  /\ LET url == IF outcome = "ok" THEN Url("audio", q.body.id) ELSE NULL
         fr == [run[r] EXCEPT
                  !.audioUrl = url,
                  !.log = Append(@, [kind |-> "audio", of |-> q.body.id,
                                     ok |-> outcome = "ok"])]
     IN /\ uploadedUrl' = IF outcome = "ok" THEN url ELSE uploadedUrl
        /\ ImagesPhase(r, fr, net \ {q})
  /\ UNCHANGED <<mediaRecorder, audioChunks, audioBlob, audioUrl, isRecording,
                 analyser, animationId, timerInterval>>
  /\ UNCHANGED <<files, preview, offered, removed, browserVars>>
  /\ UNCHANGED <<submitDisabled, alerts, location, submits, lastPost, form, server>>

\* uploadAll() resumed by the answer to the fetch for one file
ImageResponseAborts(r, q, outcome) ==
  /\ location = FormPage
  /\ q \in net /\ q.run = r /\ q.kind = "image"
  /\ run[r].pc = "images"
  /\ LET fr == [run[r] EXCEPT
                  !.log = Append(@, [kind |-> "image", of |-> q.body.id,
                                     ok |-> outcome = "ok"])]
         ups == IF outcome = "ok"
                THEN Append(uploadedUrls, Url("image", q.body.id))
                ELSE uploadedUrls
     IN IF outcome = "ok"
        THEN UploadNext(r, fr, net \ {q}, ups, submitText)
        ELSE /\ uploadedUrls' = ups
             /\ SendPhase(r, fr, net \ {q}, ups)
  /\ UNCHANGED <<files, preview, offered, removed, recorderVars, browserVars>>
  /\ UNCHANGED <<submitDisabled, alerts, location, submits, lastPost, form, server>>
ImageResponseRetries(r, q, outcome) ==
  /\ location = FormPage
  /\ q \in net /\ q.run = r /\ q.kind = "image"
  /\ run[r].pc = "images"
  /\ LET fr == [run[r] EXCEPT
                  !.idx = IF outcome = "ok" THEN @ ELSE @ - 1,
                  !.log = Append(@, [kind |-> "image", of |-> q.body.id,
                                     ok |-> outcome = "ok"])]
         ups == IF outcome = "ok"
                THEN Append(uploadedUrls, Url("image", q.body.id))
                ELSE uploadedUrls
     IN UploadNext(r, fr, net \ {q}, ups, submitText)
  /\ UNCHANGED <<files, preview, offered, removed, recorderVars, browserVars>>
  /\ UNCHANGED <<submitDisabled, alerts, location, submits, lastPost, form, server>>
ImageResponse(r, q, outcome) ==
  /\ location = FormPage
  /\ q \in net /\ q.run = r /\ q.kind = "image"
  /\ run[r].pc = "images"
  /\ LET fr == [run[r] EXCEPT
                  !.log = Append(@, [kind |-> "image", of |-> q.body.id,
                                     ok |-> outcome = "ok"])]
         ups == IF outcome = "ok"
                THEN Append(uploadedUrls, Url("image", q.body.id))
                ELSE uploadedUrls
     IN UploadNext(r, fr, net \ {q}, ups, submitText)
  /\ UNCHANGED <<files, preview, offered, removed, recorderVars, browserVars>>
  /\ UNCHANGED <<submitDisabled, alerts, location, submits, lastPost, form, server>>

\* What the submission endpoint can answer: a redirect that fetch followed, a
\* plain success status, a failure status, or no answer (network error)
SubmitOutcomes == {"redirected", "ok", "fail", "neterr"}
AlertSubmit == "Something went wrong. Please try again."

\* Whether the answer to the POST ends in the catch block
SubmitFailsNetOnly(outcome) == outcome = "neterr"
SubmitFails(outcome) == outcome \notin {"redirected", "ok"}

\* The handler resumed by the answer to the POST
SubmitResponseStaysDisabled(r, q, outcome) ==
  /\ location = FormPage
  /\ q \in net /\ q.run = r /\ q.kind = "submit"
  /\ run[r].pc = "sending"
  /\ net' = net \ {q}
  /\ lastPost' = outcome
  /\ IF SubmitFails(outcome)
     THEN /\ alerts' = alerts \cup {AlertSubmit}
          /\ submitText' = LabelIdle
          /\ run' = [run EXCEPT ![r] = Frame0]
          /\ UNCHANGED <<location, submitDisabled>>
     ELSE /\ location' = ThankYou
          /\ run' = [run EXCEPT ![r].pc = "navigated"]
          /\ UNCHANGED <<alerts, submitDisabled, submitText>>
  /\ UNCHANGED <<recorderVars, browserVars, uploaderVars, submits, form, server>>
SubmitResponse(r, q, outcome) ==
  /\ location = FormPage
  /\ q \in net /\ q.run = r /\ q.kind = "submit"
  /\ run[r].pc = "sending"
  /\ net' = net \ {q}
  /\ lastPost' = outcome
  /\ IF SubmitFails(outcome)
     THEN /\ alerts' = alerts \cup {AlertSubmit}
          /\ submitDisabled' = FALSE
          /\ submitText' = LabelIdle
          /\ run' = [run EXCEPT ![r] = Frame0]
          /\ UNCHANGED location
     ELSE /\ location' = ThankYou
          /\ run' = [run EXCEPT ![r].pc = "navigated"]
          /\ UNCHANGED <<alerts, submitDisabled, submitText>>
  /\ UNCHANGED <<recorderVars, browserVars, uploaderVars, submits, form, server>>

(***************************************************************************)
(* VoiceRecorder.                                                          *)
(***************************************************************************)
\* A handle of requestAnimationFrame or setInterval: any number not in use;
\* handles are only ever compared, so the least free one stands for it
NewHandle(used) == CHOOSE h \in 1..(Cardinality(used) + 1) : h \notin used

\* secs.toString().padStart(2, '0')
Pad2(n) == IF n < 10 THEN "0" \o ToString(n) ELSE ToString(n)

\* `${mins}:${secs.toString().padStart(2, '0')}` of the elapsed seconds
TimeText(e) == ToString(e \div 60) \o ":" \o Pad2(e % 60)

LabelZero == "0:00"
BtnStart == "Start Recording"
BtnStop == "Stop Recording"
AlertMic == "Could not access microphone. Please allow microphone access and try again."

\* updateUI(): the display as a function of the display before and the
\* recorder's isRecording and audioUrl
RecorderUI(ui, rec, url) ==
  IF rec
  THEN [ui EXCEPT !.btn = BtnStop, !.statusHidden = FALSE]
  ELSE IF url # NULL
       THEN [ui EXCEPT !.btn = BtnStart, !.statusHidden = TRUE,
                       !.previewHidden = FALSE, !.playerSrc = url]
       ELSE [ui EXCEPT !.btn = BtnStart, !.statusHidden = TRUE]

\* stopWaveform(): the frame requests left scheduled
StopWaveform(pending, id) == IF id # None THEN pending \ {id} ELSE pending

\* stopTimer(): the intervals left active
StopTimerLeaky(active, id) == active
StopTimer(active, id) == IF id # None THEN active \ {id} ELSE active

\* What start() and stop() leave alone besides this.mediaRecorder and
\* this.analyser
RecorderRest == <<audioBlob, audioUrl, uploadedUrl, timeLabel>>

\* start() on capture session m of the session table ss, with this.analyser = an
start(m, ss, an) ==
  /\ audioChunks' = <<>>
  /\ takes' = takes + 1
  /\ afterClear' = FALSE
  /\ IF ss[m].state # "inactive"
     THEN \* MediaRecorder.start throws InvalidStateError: start() ends here
          /\ sessions' = ss
          /\ UNCHANGED <<isRecording, elapsed, recUI, animationId, rafPending,
                         canvas, timerInterval, intervals>>
     ELSE /\ sessions' = [ss EXCEPT ![m].state = "recording",
                                    ![m].take = takes + 1,
                                    ![m].sent = 0]
          /\ isRecording' = TRUE
          /\ elapsed' = 0
          /\ recUI' = RecorderUI(recUI, TRUE, audioUrl)
          /\ IF an # None
             THEN \* startWaveform(): draw() requests the next frame and draws;
                  \* startTimer(): the interval
                  LET h == NewHandle(rafPending \cup ({animationId} \ {None}))
                      t == NewHandle(intervals \cup ({timerInterval} \ {None}))
                  IN /\ animationId' = h
                     /\ rafPending' = rafPending \cup {h}
                     /\ canvas' = 1 - canvas
                     /\ timerInterval' = t
                     /\ intervals' = intervals \cup {t}
             ELSE \* this.analyser is null: startWaveform() throws a TypeError
                  \* and startTimer() is not reached
                  UNCHANGED <<animationId, rafPending, canvas, timerInterval,
                              intervals>>
  /\ UNCHANGED <<stopTasks, RecorderRest>>

\* stop() on capture session m of the session table ss.  MediaRecorder.stop()
\* on an inactive session does nothing; on a recording one it inactivates it
\* and queues the task that fires the last dataavailable and the stop event
stopAssembles(m, ss, an) ==
  /\ IF ss[m].state = "recording"
     THEN /\ sessions' = [ss EXCEPT ![m].state = "inactive"]
          /\ stopTasks' = Append(stopTasks, [session |-> m, take |-> ss[m].take])
     ELSE /\ sessions' = ss
          /\ stopTasks' = stopTasks
  /\ isRecording' = FALSE
  /\ rafPending' = StopWaveform(rafPending, animationId)
  /\ animationId' = None
  /\ intervals' = StopTimer(intervals, timerInterval)
  /\ timerInterval' = None
  /\ audioBlob' = [id |-> ss[m].take, chunks |-> audioChunks, type |-> ss[m].mime]
  /\ audioUrl' = [blob |-> ss[m].take]
  /\ UNCHANGED <<audioChunks, elapsed, canvas, recUI, takes, afterClear, uploadedUrl,
                 timeLabel>>
stop(m, ss, an) ==
  /\ IF ss[m].state = "recording"
     THEN /\ sessions' = [ss EXCEPT ![m].state = "inactive"]
          /\ stopTasks' = Append(stopTasks, [session |-> m, take |-> ss[m].take])
     ELSE /\ sessions' = ss
          /\ stopTasks' = stopTasks
  /\ isRecording' = FALSE
  /\ rafPending' = StopWaveform(rafPending, animationId)
  /\ animationId' = None
  /\ intervals' = StopTimer(intervals, timerInterval)
  /\ timerInterval' = None
  /\ UNCHANGED <<audioChunks, elapsed, canvas, recUI, takes, afterClear, RecorderRest>>

\* The tail of the record button's click handler
Toggle(m, ss, an) == IF isRecording THEN stop(m, ss, an) ELSE start(m, ss, an)

\* A click on the record button.  Without a capture session the handler
\* suspends in init() at getUserMedia; with one it toggles at once.
ClickRecord ==
  /\ location = FormPage
  /\ IF mediaRecorder = None
     THEN /\ waiting' = waiting + 1
          /\ UNCHANGED <<recorderVars, sessions, stopTasks, rafPending, intervals,
                         elapsed, timeLabel, canvas, recUI, takes, afterClear>>
     ELSE /\ Toggle(mediaRecorder, sessions, analyser)
          /\ UNCHANGED <<mediaRecorder, analyser, waiting>>
  /\ UNCHANGED <<uploaderVars, pageVars, serverVars>>

\* How init() can end: the stream is granted and everything is built; access
\* is refused or there is no device; the MediaRecorder constructor throws; the
\* construction of the analysis tap throws
InitOutcomes == {"granted", "denied", "ctor-fail", "tap-fail"}

\* A capture session as the MediaRecorder constructor makes it
NewSession == [state |-> "inactive", take |-> 0, sent |-> 0, wired |-> FALSE,
               mime |-> AudioWebm]

\* A click handler suspended in init() resumes: the rest of init(), then the
\* rest of the handler; mime is the mimeType of the MediaRecorder it builds
InitResumes(outcome, mime) ==
  /\ location = FormPage
  /\ waiting > 0
  /\ waiting' = waiting - 1
  /\ LET m == Len(sessions) + 1 IN
     CASE outcome \in {"denied", "ctor-fail"} ->
            \* getUserMedia rejects, or new MediaRecorder throws: nothing assigned
            /\ alerts' = alerts \cup {AlertMic}
            /\ UNCHANGED <<recorderVars, sessions, stopTasks, rafPending, intervals,
                           elapsed, timeLabel, canvas, recUI, takes, afterClear>>
       [] outcome = "tap-fail" ->
            \* new AudioContext throws after this.mediaRecorder is assigned
            /\ mediaRecorder' = m
            /\ sessions' = Append(sessions, [NewSession EXCEPT !.mime = mime])
            /\ alerts' = alerts \cup {AlertMic}
            /\ UNCHANGED <<audioChunks, audioBlob, audioUrl, isRecording, uploadedUrl,
                           analyser, animationId, timerInterval>>
            /\ UNCHANGED <<stopTasks, rafPending, intervals, elapsed, timeLabel,
                           canvas, recUI, takes, afterClear>>
       [] outcome = "granted" ->
            /\ mediaRecorder' = m
            /\ alerts' = alerts
            /\ analyser' = m
            /\ Toggle(m, Append(sessions, [NewSession EXCEPT !.wired = TRUE,
                                                          !.mime = mime]), m)
  /\ UNCHANGED <<uploaderVars, run, net, submitDisabled, submitText, location, submits,
                 lastPost, form, server>>

\* ondataavailable on the timeslice of recording session m, with data
DataAvailable(m) ==
  /\ location = FormPage
  /\ m \in 1..Len(sessions)
  /\ sessions[m].state = "recording"
  /\ sessions[m].wired
  /\ sessions' = [sessions EXCEPT ![m].sent = @ + 1]
  /\ audioChunks' = Append(audioChunks, [take |-> sessions[m].take,
                                         n |-> sessions[m].sent + 1])
  /\ UNCHANGED <<mediaRecorder, audioBlob, audioUrl, isRecording, uploadedUrl,
                 analyser, animationId, timerInterval>>
  /\ UNCHANGED <<waiting, stopTasks, rafPending, intervals, elapsed, timeLabel,
                 canvas, recUI, takes, afterClear>>
  /\ UNCHANGED <<uploaderVars, pageVars, serverVars>>

\* URL.createObjectURL(blob)
ObjectUrl(blob) == [blob |-> blob.id]

\* The stop task of a capture session: the last dataavailable (with data or
\* empty) and then the stop event; onstop assembles the artifact
StopTask(final) ==
  /\ location = FormPage
  /\ stopTasks # <<>>
  /\ stopTasks' = Tail(stopTasks)
  /\ LET t == Head(stopTasks)
         chunks == IF final THEN Append(audioChunks, [take |-> t.take, n |-> 0])
                   ELSE audioChunks
         blob == [id |-> t.take, chunks |-> chunks,
                  type |-> sessions[mediaRecorder].mime]
     IN IF sessions[t.session].wired
        THEN /\ audioChunks' = chunks
             /\ audioBlob' = blob
             /\ audioUrl' = ObjectUrl(blob)
             /\ recUI' = RecorderUI(recUI, isRecording, ObjectUrl(blob))
        ELSE UNCHANGED <<audioChunks, audioBlob, audioUrl, recUI>>
  /\ UNCHANGED <<mediaRecorder, isRecording, uploadedUrl, analyser, animationId,
                 timerInterval>>
  /\ UNCHANGED <<sessions, waiting, rafPending, intervals, elapsed, timeLabel,
                 canvas, takes, afterClear>>
  /\ UNCHANGED <<uploaderVars, pageVars, serverVars>>

\* draw(), run as the callback of frame request h
Draw(h) ==
  /\ location = FormPage
  /\ h \in rafPending
  /\ IF ~isRecording
     THEN /\ rafPending' = rafPending \ {h}
          /\ UNCHANGED <<animationId, canvas>>
     ELSE LET n == NewHandle((rafPending \ {h}) \cup ({animationId} \ {None, h}))
          IN /\ animationId' = n
             /\ rafPending' = (rafPending \ {h}) \cup {n}
             /\ canvas' = 1 - canvas
  /\ UNCHANGED <<mediaRecorder, audioChunks, audioBlob, audioUrl, isRecording,
                 uploadedUrl, analyser, timerInterval>>
  /\ UNCHANGED <<sessions, waiting, stopTasks, intervals, elapsed, timeLabel,
                 recUI, takes, afterClear>>
  /\ UNCHANGED <<uploaderVars, pageVars, serverVars>>

\* The callback of interval h
Tick(h) ==
  /\ location = FormPage
  /\ h \in intervals
  /\ timeLabel' = TimeText(elapsed)
  /\ UNCHANGED <<recorderVars, sessions, waiting, stopTasks, rafPending, intervals,
                 elapsed, canvas, recUI, takes, afterClear>>
  /\ UNCHANGED <<uploaderVars, pageVars, serverVars>>

\* A second of wall-clock time passes (measured from this.startTime, which
\* start() sets)
Clock ==
  /\ location = FormPage
  /\ takes > 0
  /\ elapsed' = elapsed + 1
  /\ UNCHANGED <<recorderVars, sessions, waiting, stopTasks, rafPending, intervals,
                 timeLabel, canvas, recUI, takes, afterClear>>
  /\ UNCHANGED <<uploaderVars, pageVars, serverVars>>

\* clear(): the click on #clear-recording
clear ==
  /\ location = FormPage
  /\ audioChunks' = <<>>
  /\ audioBlob' = NULL
  /\ audioUrl' = NULL
  /\ uploadedUrl' = NULL
  /\ recUI' = [recUI EXCEPT !.previewHidden = TRUE]
  /\ timeLabel' = LabelZero
  /\ afterClear' = TRUE
  /\ UNCHANGED <<mediaRecorder, isRecording, analyser, animationId, timerInterval>>
  /\ UNCHANGED <<sessions, waiting, stopTasks, rafPending, intervals, elapsed,
                 canvas, takes>>
  /\ UNCHANGED <<uploaderVars, pageVars, serverVars>>

(***************************************************************************)
(* The serverless functions (src/api/upload.js, src/api/submit.js).  Each  *)
(* request starts an activation of its handler; an activation runs up to   *)
(* its next await in one step and resumes when the awaited parse, store or *)
(* email request settles.  The timestamp and the random part of a file     *)
(* name are left out: a stored object is known by its directory and its    *)
(* extension.                                                              *)
(***************************************************************************)
\* fields.type as formidable delivers it: absent, or an array of one string
TypeFields == {<<>>, <<"audio">>, <<"image">>, <<"video">>, <<"">>}

\* files.file: absent, or a file whose original name ends in .last ("" when
\* it has no original name)
FileFields == {NULL, [last |-> "png"], [last |-> ""]}

\* data.company: "" when the field is empty or absent
CompanyFields == {"", "Acme"}

\* A request: its method and the fields of its form data.  audio and images
\* are the texts of audio-url and image-urls (<<>> when the field is empty or
\* absent); returned is history, the URLs the client joined into images
Request(method, file, type, company) ==
  [method |-> method, file |-> file, type |-> type, company |-> company,
   audio |-> <<>>, images |-> <<>>, returned |-> <<>>]

UploadRequests ==
  {Request("GET", NULL, <<>>, "")} \cup
  {Request("POST", f, t, "") : f \in FileFields, t \in TypeFields}

SubmitRequests ==
  {Request(m, NULL, <<>>, c) : m \in {"GET", "POST"}, c \in CompanyFields}

\* The text of a URL, a sequence of parts: two URLs without a comma, and one
\* with a comma in the extension its file name gave it (upload.js line 38)
UrlTexts ==
  {<<Url("image", 1)>>, <<Url("image", 2)>>,
   <<Url("image", 3), Comma, Url("ext", 3)>>}

\* imageUrls.join(',') on the texts of the URLs
RECURSIVE JoinText(_)
JoinText(urls) ==
  IF Len(urls) = 0 THEN <<>>
  ELSE IF Len(urls) = 1 THEN urls[1]
  ELSE urls[1] \o <<Comma>> \o JoinText(Tail(urls))

\* The sequences of at most n URL texts
RECURSIVE UrlLists(_)
UrlLists(n) ==
  IF n = 0 THEN {<<>>}
  ELSE UrlLists(n - 1) \cup
       {Append(l, u) : l \in {k \in UrlLists(n - 1) : Len(k) = n - 1}, u \in UrlTexts}

\* The POST of the page's submit handler after uploadAll() returned urls,
\* with or without an audio URL
PageRequests(n) ==
  {[Request("POST", NULL, <<>>, "Acme") EXCEPT
      !.audio = a,
      !.images = IF Len(urls) > 0 THEN JoinText(urls) ELSE <<>>,
      !.returned = urls] :
     a \in {<<>>, <<Url("audio", 1)>>}, urls \in UrlLists(n)}

Server0 == [handlers |-> <<>>, blobs |-> <<>>, emails |-> <<>>]

\* An activation before its first statement
Handler0(api, q) ==
  [api |-> api, req |-> q, pc |-> "start", responses |-> <<>>, error |-> "",
   filename |-> NULL, stored |-> FALSE, mail |-> NULL, provider |-> ""]

\* res.status(code).json(...) and res.writeHead(302, ...); res.end()
Json(code, url) == [status |-> code, url |-> url, location |-> ""]
Redirect(to) == [status |-> 302, url |-> NULL, location |-> to]
Answer(h, response) ==
  [h EXCEPT !.responses = Append(@, response), !.pc = "done"]

\* upload.js line 27: fields.type?.[0] || fields.type || 'file', as the
\* template of line 39 prints it
TypeOf(t) == IF t = <<>> THEN "file" ELSE t[1]

\* upload.js lines 38-39
Extension(type, file) ==
  IF type = "audio" THEN "webm" ELSE IF file.last # "" THEN file.last ELSE "jpg"
Filename(type, file) ==
  [dir |-> "intake/" \o type \o "/", ext |-> Extension(type, file)]
BlobUrl(filename) == [blob |-> filename]

\* upload.js lines 12-24: the method check and the call of form.parse
UploadHandler(q) ==
  /\ server' = [server EXCEPT !.handlers = Append(@,
       IF q.method # "POST"
         THEN Answer(Handler0("upload", q), Json(405, NULL))
         ELSE [Handler0("upload", q) EXCEPT !.pc = "parse"])]
  /\ UNCHANGED <<recorderVars, browserVars, uploaderVars, pageVars>>

\* upload.js lines 19-45 and 51-54: form.parse settles; the file is read and
\* put() is called
ParseOutcomes == {"ok", "error", "unreadable"}
UploadHandlerParsed(i, o) ==
  LET h == server.handlers[i]
      type == TypeOf(h.req.type)
  IN /\ h.api = "upload"
     /\ h.pc = "parse"
     /\ server' = [server EXCEPT !.handlers[i] =
          IF o = "error" THEN Answer([h EXCEPT !.error = "parse"], Json(500, NULL))
          ELSE IF h.req.file = NULL THEN Answer(h, Json(400, NULL))
          ELSE IF o = "unreadable"
            THEN Answer([h EXCEPT !.error = "read"], Json(500, NULL))
          ELSE [h EXCEPT !.pc = "put", !.filename = Filename(type, h.req.file)]]
     /\ UNCHANGED <<recorderVars, browserVars, uploaderVars, pageVars>>

\* upload.js lines 42-54: put() settles; the temporary file is removed and
\* the URL of the blob returned
PutOutcomes == {"stored", "failed", "stored, unlink fails"}
UploadHandlerPutUnchecked(i, o) ==
  LET h == server.handlers[i]
  IN /\ h.api = "upload"
     /\ h.pc = "put"
     /\ server' = [server EXCEPT
          !.blobs = IF o = "failed" THEN @ ELSE Append(@, h.filename),
          !.handlers[i] =
            Answer([h EXCEPT !.stored = (o # "failed")],
                   Json(200, BlobUrl(h.filename)))]
     /\ UNCHANGED <<recorderVars, browserVars, uploaderVars, pageVars>>

UploadHandlerPut(i, o) ==
  LET h == server.handlers[i]
  IN /\ h.api = "upload"
     /\ h.pc = "put"
     /\ server' = [server EXCEPT
          !.blobs = IF o = "failed" THEN @ ELSE Append(@, h.filename),
          !.handlers[i] =
            IF o = "failed" THEN Answer([h EXCEPT !.error = "put"], Json(500, NULL))
            ELSE IF o = "stored"
              THEN Answer([h EXCEPT !.stored = TRUE], Json(200, BlobUrl(h.filename)))
            ELSE Answer([h EXCEPT !.stored = TRUE, !.error = "unlink"],
                        Json(500, NULL))]
     /\ UNCHANGED <<recorderVars, browserVars, uploaderVars, pageVars>>

\* submit.js lines 10-22: the method check and the call of form.parse
SubmitHandler(q) ==
  /\ server' = [server EXCEPT !.handlers = Append(@,
       IF q.method # "POST"
         THEN Answer(Handler0("submit", q), Json(405, NULL))
         ELSE [Handler0("submit", q) EXCEPT !.pc = "parse"])]
  /\ UNCHANGED <<recorderVars, browserVars, uploaderVars, pageVars>>

\* submit.js lines 40-46: the email handed to the provider
MailFrom == "Intake Form <intake@sailorskills.com>"
MailTo == <<"standardhuman@gmail.com">>
Subject(company) ==
  "New Project Inquiry: " \o (IF company # "" THEN company ELSE "Unknown Company")
\* String.prototype.split(','): the texts between the commas
RECURSIVE Split(_)
Split(text) ==
  IF \A i \in 1..Len(text) : text[i] # Comma THEN <<text>>
  ELSE LET c == CHOOSE i \in 1..Len(text) :
                  text[i] = Comma /\ \A j \in 1..(i - 1) : text[j] # Comma
       IN <<SubSeq(text, 1, c - 1)>> \o Split(SubSeq(text, c + 1, Len(text)))

\* submit.js lines 151-176, formatEmailBody: the voice recording section and
\* the images section with its count and its links
Sections(data) ==
  [voice |-> data.audio # <<>>,
   images |-> data.images # <<>>,
   count |-> IF data.images # <<>> THEN Len(Split(data.images)) ELSE 0,
   urls |-> IF data.images # <<>> THEN Split(data.images) ELSE <<>>]

Mail(data) ==
  [from |-> MailFrom, to |-> MailTo, subject |-> Subject(data.company),
   html |-> Sections(data)]

\* submit.js lines 17-47 and 58-61: form.parse settles; the fields are
\* flattened, the body formatted and the request to the provider issued
SubmitHandlerParsed(i, o) ==
  LET h == server.handlers[i]
  IN /\ h.api = "submit"
     /\ h.pc = "parse"
     /\ o \in {"ok", "error"}
     /\ server' = [server EXCEPT !.handlers[i] =
          IF o = "error" THEN Answer([h EXCEPT !.error = "parse"], Json(500, NULL))
          ELSE [h EXCEPT !.pc = "email", !.mail = Mail(h.req)]]
     /\ UNCHANGED <<recorderVars, browserVars, uploaderVars, pageVars>>

\* submit.js lines 34-61: the request to the provider settles
ProviderOutcomes == {"accepted", "rejected", "unreachable"}
SubmitHandlerEmailUnchecked(i, o) ==
  LET h == server.handlers[i]
  IN /\ h.api = "submit"
     /\ h.pc = "email"
     /\ server' = [server EXCEPT
          !.emails = IF o = "accepted" THEN Append(@, h.mail) ELSE @,
          !.handlers[i] =
            IF o = "unreachable"
              THEN Answer([h EXCEPT !.provider = o, !.error = "email"], Json(500, NULL))
              ELSE Answer([h EXCEPT !.provider = o], Redirect(ThankYou))]
     /\ UNCHANGED <<recorderVars, browserVars, uploaderVars, pageVars>>

SubmitHandlerEmail(i, o) ==
  LET h == server.handlers[i]
  IN /\ h.api = "submit"
     /\ h.pc = "email"
     /\ server' = [server EXCEPT
          !.emails = IF o = "accepted" THEN Append(@, h.mail) ELSE @,
          !.handlers[i] =
            IF o = "accepted"
              THEN Answer([h EXCEPT !.provider = o], Redirect(ThankYou))
              ELSE Answer([h EXCEPT !.provider = o, !.error = "email"], Json(500, NULL))]
     /\ UNCHANGED <<recorderVars, browserVars, uploaderVars, pageVars>>

(***************************************************************************)
(* The page after DOMContentLoaded.                                        *)
(***************************************************************************)
Init ==
  /\ mediaRecorder = None
  /\ audioChunks = <<>>
  /\ audioBlob = NULL
  /\ audioUrl = NULL
  /\ isRecording = FALSE
  /\ uploadedUrl = NULL
  /\ analyser = None
  /\ animationId = None
  /\ timerInterval = None
  /\ sessions = <<>>
  /\ waiting = 0
  /\ stopTasks = <<>>
  /\ rafPending = {}
  /\ intervals = {}
  /\ elapsed = 0
  /\ timeLabel = LabelZero
  /\ canvas = 0
  /\ recUI = [btn |-> BtnStart, statusHidden |-> TRUE, previewHidden |-> TRUE,
              playerSrc |-> NULL]
  /\ takes = 0
  /\ afterClear = FALSE
  /\ files = <<>>
  /\ uploadedUrls = <<>>
  /\ preview = Render(<<>>)
  /\ offered = 0
  /\ removed = {}
  /\ run = [r \in Runs |-> Frame0]
  /\ net = {}
  /\ submitDisabled = FALSE
  /\ submitText = LabelIdle
  /\ alerts = {}
  /\ location = FormPage
  /\ submits = 0
  /\ lastPost = "none"
  /\ form = [valid |-> FALSE, blocked |-> 0]
  /\ server = Server0

\* The user fills the required fields of the form, or empties one
FillRequired ==
  /\ location = FormPage
  /\ ~form.valid
  /\ form' = [form EXCEPT !.valid = TRUE]
  /\ UNCHANGED <<recorderVars, browserVars, uploaderVars>>
  /\ UNCHANGED <<run, net, submitDisabled, submitText, alerts, location, submits, lastPost, server>>

EmptyRequired ==
  /\ location = FormPage
  /\ form.valid
  /\ form' = [form EXCEPT !.valid = FALSE]
  /\ UNCHANGED <<recorderVars, browserVars, uploaderVars>>
  /\ UNCHANGED <<run, net, submitDisabled, submitText, alerts, location, submits, lastPost, server>>

\* A click on the enabled submit button while a required field is empty: the
\* browser reports the field and raises no submit event
BlockedSubmit ==
  /\ location = FormPage
  /\ ~submitDisabled
  /\ ~form.valid
  /\ form' = [form EXCEPT !.blocked = @ + 1]
  /\ UNCHANGED <<recorderVars, browserVars, uploaderVars>>
  /\ UNCHANGED <<run, net, submitDisabled, submitText, alerts, location, submits, lastPost, server>>

\* A click on the submit button with every required field filled: the submit
\* event is raised and the listener runs
SubmitEventUnchecked(r) == Submit(r)
SubmitEvent(r) == form.valid /\ Submit(r)

\* The answers of the network to the requests in flight
Network ==
  \E q \in net :
    \/ \E o \in UploadOutcomes : AudioResponse(q.run, q, o)
    \/ \E o \in UploadOutcomes : ImageResponse(q.run, q, o)
    \/ \E o \in SubmitOutcomes : SubmitResponse(q.run, q, o)

(***************************************************************************)
(* Specifications.  The page is the composition of the recorder, the       *)
(* uploader and the submit handler; the user input and the browser events  *)
(* each specification admits are bounded by its parameters.                *)
(***************************************************************************)
\* The record button: at most maxWaiting clicks wait in init() at one time,
\* at most maxTakes recordings are started, and a MediaRecorder reports one
\* of the types mimes
RecorderClicks(maxTakes, maxWaiting, mimes) ==
  \/ /\ mediaRecorder = None => waiting < maxWaiting
     /\ (mediaRecorder # None /\ ~isRecording) => takes < maxTakes
     /\ ClickRecord
  \/ \E o \in InitOutcomes, mime \in mimes :
       /\ (o = "granted" /\ ~isRecording) => takes < maxTakes
       /\ InitResumes(o, mime)

\* The stop tasks of the capture sessions and the clear button
RecorderEvents ==
  \/ \E final \in BOOLEAN : StopTask(final)
  \/ clear

\* Timeslice chunks, at most maxChunks with data per recording
RecorderChunks(maxChunks) ==
  \E m \in 1..Len(sessions) :
    /\ sessions[m].sent < maxChunks
    /\ DataAvailable(m)

\* Animation frames, interval callbacks and the passing of time
RecorderTimers(maxSecs) ==
  \/ \E h \in rafPending : Draw(h)
  \/ \E h \in intervals : Tick(h)
  \/ elapsed < maxSecs /\ Clock

\* Drops and file-input changes, and the remove buttons
UploaderNext(maxBatch, maxOffered) ==
  \/ \E c \in CandidateLists(Min(maxBatch, maxOffered - offered)) : addFiles(c)
  \/ \E i \in 1..MaxFiles : removeFile(i)

\* Submit events and the answers of the network
SubmitNext(maxSubmits) ==
  \/ \E r \in Runs : submits < maxSubmits /\ SubmitEvent(r)
  \/ FillRequired
  \/ Network

\* The whole page: recorder, uploader and submit handler.  Here a record
\* click is not followed by another while init() is pending, and the audio
\* data of a recording arrives with its stop task; SpecRecorder and
\* SpecTimers admit both.
Next ==
  \/ UploaderNext(MaxBatch, MaxOffered)
  \/ SubmitNext(MaxSubmits)
  \/ RecorderClicks(MaxTakes, 1, {AudioWebm})
  \/ RecorderEvents
Spec == Init /\ [][Next]_vars

\* The recorder with its timers, and the submit handler uploading its artifact
NextRecorder ==
  \/ RecorderClicks(MaxTakesRec, MaxWaitingRec, {AudioWebm})
  \/ RecorderEvents
  \/ RecorderChunks(MaxChunksRec)
  \/ RecorderTimers(MaxSecsRec)
  \/ SubmitNext(MaxSubmitsRec)
SpecRecorder == Init /\ [][NextRecorder]_vars

\* The recorder with its timers alone
NextTimers ==
  \/ RecorderClicks(MaxTakesTm, MaxWaitingTm, {AudioWebm})
  \/ RecorderEvents
  \/ RecorderChunks(MaxChunksTm)
  \/ RecorderTimers(MaxSecsTm)
SpecTimers == Init /\ [][NextTimers]_vars

\* The uploader and the submit handler
NextUploader ==
  \/ UploaderNext(MaxBatchUp, MaxOfferedUp)
  \/ SubmitNext(MaxSubmitsUp)
SpecUploader == Init /\ [][NextUploader]_vars

\* The selection alone, with enough files offered to reach the cap
NextSelection == UploaderNext(MaxBatchSel, MaxOfferedSel)
SpecSelection == Init /\ [][NextSelection]_vars

\* The page with a form whose required fields are filled and emptied, and
\* submit attempts on the incomplete form
NextForm ==
  \/ UploaderNext(MaxBatchFm, MaxOfferedFm)
  \/ SubmitNext(MaxSubmitsFm)
  \/ RecorderClicks(MaxTakesFm, 1, {AudioWebm})
  \/ \E final \in BOOLEAN : StopTask(final)
  \/ EmptyRequired
  \/ form.blocked < MaxBlocked /\ BlockedSubmit
SpecForm == Init /\ [][NextForm]_vars

\* The page with every request in flight answered at some time
NextLive ==
  \/ UploaderNext(MaxOfferedLv, MaxOfferedLv)
  \/ SubmitNext(MaxSubmitsLv)
  \/ RecorderClicks(MaxTakesLv, 1, {AudioWebm})
  \/ \E final \in BOOLEAN : StopTask(final)
SpecLive == Init /\ [][NextLive]_vars /\ WF_vars(Network)

\* The recorder of a browser with any of the audio types, and the submit
\* handler uploading its artifact
NextUpload ==
  \/ RecorderClicks(MaxTakesUl, 1, AudioTypes)
  \/ RecorderEvents
  \/ SubmitNext(MaxSubmitsUl)
SpecUpload == Init /\ [][NextUpload]_vars

\* The recorder with record clicks that arrive while init() is pending
NextClicks ==
  \/ RecorderClicks(MaxTakesCk, MaxWaitingCk, {AudioWebm})
  \/ RecorderEvents
  \/ RecorderChunks(MaxChunksCk)
SpecClicks == Init /\ [][NextClicks]_vars

\* The two serverless functions, serving at most MaxRequests requests
NextServer ==
  \/ Len(server.handlers) < MaxRequests /\ \E q \in UploadRequests : UploadHandler(q)
  \/ Len(server.handlers) < MaxRequests /\ \E q \in SubmitRequests : SubmitHandler(q)
  \/ \E i \in 1..Len(server.handlers) :
       \/ \E o \in ParseOutcomes : UploadHandlerParsed(i, o)
       \/ \E o \in PutOutcomes : UploadHandlerPut(i, o)
       \/ \E o \in ParseOutcomes : SubmitHandlerParsed(i, o)
       \/ \E o \in ProviderOutcomes : SubmitHandlerEmail(i, o)
SpecServer == Init /\ [][NextServer]_vars

\* The submission function serving the POSTs of the page
NextEmail ==
  \/ /\ Len(server.handlers) < MaxRequestsEm
     /\ \E q \in PageRequests(MaxUrlsEm) : SubmitHandler(q)
  \/ \E i \in 1..Len(server.handlers) :
       \/ \E o \in ParseOutcomes : SubmitHandlerParsed(i, o)
       \/ \E o \in ProviderOutcomes : SubmitHandlerEmail(i, o)
SpecEmail == Init /\ [][NextEmail]_vars

(***************************************************************************)
(* Properties of the submit handler and of the selection.                  *)
(***************************************************************************)
\* C1: within one activation of the submit handler the audio upload has
\* completed before the first image upload request is issued, and every
\* image upload has completed before the POST is issued: while the audio
\* request is in flight no image upload has been issued, while an image
\* request is in flight the audio request is not, while the POST is in flight
\* no upload request is, and no audio upload completes after an image upload.
C1_UploadsBeforePost ==
  \A r \in Runs :
    LET mine == {q \in net : q.run = r}
        kinds == {q.kind : q \in mine}
        log == run[r].log
    IN /\ "audio" \in kinds => (kinds = {"audio"} /\ log = <<>>)
       /\ "image" \in kinds => kinds = {"image"}
       /\ "submit" \in kinds => kinds = {"submit"}
       /\ \A i, j \in 1..Len(log) :
            i < j => ~(log[i].kind = "image" /\ log[j].kind = "audio")

\* C1: the POST is in flight after an audio upload and an image upload
C1_Witness ==
  \E q \in net :
    /\ q.kind = "submit"
    /\ \E i, j \in 1..Len(run[q.run].log) :
         run[q.run].log[i].kind = "audio" /\ run[q.run].log[j].kind = "image"

\* C2: at most one activation of the submit handler is in flight at any
\* time, and the submit button is disabled for as long as one is
C2_OneRunInFlight ==
  LET inFlight == {r \in Runs : run[r].pc \in {"audio", "images", "sending"}}
  IN /\ Cardinality(inFlight) <= 1
     /\ inFlight # {} => submitDisabled

\* C2: a second activation awaits its audio upload, the first having failed
C2_Witness ==
  /\ submits = 2
  /\ submitDisabled
  /\ \E r \in Runs : run[r].pc = "audio"

\* C3: after any sequence of addFiles and removeFile calls the selection has
\* at most MaxFiles files, each of a type that starts with "image/", and no
\* error has been shown for the candidates that were dropped
C3_SelectionBounded ==
  /\ Len(files) <= MaxFiles
  /\ \A i \in 1..Len(files) : StartsWith(files[i].type, ImagePrefix)
  /\ alerts = {}

\* C3: the selection is full and a further candidate has been offered
C3_Witness ==
  /\ Len(files) = MaxFiles
  /\ offered > MaxFiles
  /\ removed = {}

\* C4: when uploadAll() returns to the handler (the selection unchanged
\* meanwhile), every selected file has been tried once, in order, the returned
\* sequence holds the URLs of exactly the files whose upload succeeded, in the
\* order of the files, so N - 1 URLs when exactly one of N uploads failed;
\* and the handler goes on to the POST with that sequence
C4_FailureSkipsOneFile ==
  \A r \in Runs :
    (run[r].pc = "sending" /\ ~run[r].touched /\ Len(files) > 0) =>
      LET IsImage(e) == e.kind = "image"
          IsStored(e) == e.kind = "image" /\ e.ok
          tried == SelectSeq(run[r].log, IsImage)
          stored == SelectSeq(run[r].log, IsStored)
      IN /\ Len(tried) = Len(files)
         /\ \A i \in 1..Len(files) : tried[i].of = files[i].id
         /\ uploadedUrls = [i \in 1..Len(stored) |-> Url("image", stored[i].of)]
         /\ Len(tried) - Len(stored) = 1 => Len(uploadedUrls) = Len(files) - 1
         /\ \A q \in net :
              (q.run = r /\ Len(uploadedUrls) > 0) =>
                q.body["image-urls"] = Join(uploadedUrls)

\* C4: three files, the upload of the second failed, two URLs returned
C4_Witness ==
  \E r \in Runs :
    /\ run[r].pc = "sending" /\ ~run[r].touched
    /\ Len(files) = 3
    /\ Len(run[r].log) = 3
    /\ run[r].log[1].ok /\ ~run[r].log[2].ok /\ run[r].log[3].ok
    /\ Len(uploadedUrls) = 2

\* C5: when uploadAll() returns to the handler (the selection unchanged
\* meanwhile), the returned sequence has no URL of a file that was removed
\* before the call, and its URLs are of selected files in the order of the
\* selection (files are numbered in the order they were offered)
C5_RemovedFileNotUploaded ==
  \A r \in Runs :
    (run[r].pc = "sending" /\ ~run[r].touched /\ Len(files) > 0) =>
      /\ \A f \in removed : \A i \in 1..Len(uploadedUrls) :
           uploadedUrls[i] # Url("image", f.id)
      /\ \A i \in 1..Len(uploadedUrls) : \E j \in 1..Len(files) :
           uploadedUrls[i] = Url("image", files[j].id)
      /\ \A i, j \in 1..Len(uploadedUrls) :
           i < j => uploadedUrls[i].of < uploadedUrls[j].of

\* C5: a second uploadAll() has returned URLs after a file was removed
C5_Witness ==
  \E r \in Runs :
    /\ run[r].pc = "sending" /\ ~run[r].touched
    /\ submits = 2
    /\ removed # {}
    /\ Len(files) > 0
    /\ Len(uploadedUrls) = Len(files)

(***************************************************************************)
(* Properties of the recorder.                                             *)
(***************************************************************************)
\* C6: from stop() until the next start() no frame callback is scheduled and
\* no interval is active, and no step redraws the waveform or writes an
\* elapsed time to the label (clear() alone writes it, as "0:00"), however
\* much time passes
C6_StopCancelsCallbacks ==
  /\ [](~isRecording => (rafPending = {} /\ intervals = {}))
  /\ [][(~isRecording /\ ~isRecording') =>
          (canvas' = canvas /\ timeLabel' \in {timeLabel, LabelZero})]_vars

\* C6: a recording was stopped, time has passed since, and the label does not
\* show it
C6_Witness ==
  /\ takes > 0
  /\ ~isRecording
  /\ animationId = None /\ timerInterval = None
  /\ elapsed > 0
  /\ timeLabel # TimeText(elapsed)

\* C7: from clear() until the next start() the label shows "0:00", there is
\* no artifact, and upload() would return null without a request
C7_ClearLeavesNothing ==
  afterClear => (timeLabel = LabelZero /\ audioBlob = NULL /\ ~UploadStarts(audioBlob))

(***************************************************************************)
(* Properties of a submission.                                             *)
(***************************************************************************)
\* C8: when every upload an activation has attempted failed, its POST (one
\* only) carries neither audio-url nor image-urls; and the step that resumes
\* the handler after an upload, failed or not, shows no alert and leaves the
\* activation with exactly one request in flight, the next upload or the POST
C8_AllUploadsFail ==
  /\ [](\A r \in Runs :
          LET posts == {q \in net : q.run = r /\ q.kind = "submit"}
          IN /\ Cardinality(posts) <= 1
             /\ run[r].pc = "sending" => Cardinality(posts) = 1
             /\ \A q \in posts :
                  (\A i \in 1..Len(run[r].log) : ~run[r].log[i].ok) =>
                     DOMAIN q.body = {"fields"})
  /\ [][\A r \in Runs :
          Len(run'[r].log) > Len(run[r].log) =>
            /\ alerts' = alerts
            /\ run'[r].pc \in {"images", "sending"}
            /\ Cardinality({q \in net' : q.run = r}) = 1]_vars

\* C8: the POST is in flight after a failed audio upload and a failed image
\* upload
C8_Witness ==
  \E q \in net :
    LET log == run[q.run].log
    IN /\ q.kind = "submit"
       /\ Len(log) = 2
       /\ log[1].kind = "audio" /\ ~log[1].ok
       /\ log[2].kind = "image" /\ ~log[2].ok
       /\ DOMAIN q.body = {"fields"}

\* C9: with k >= 1 files selected (the selection unchanged meanwhile), no
\* artifact at the submit event and every upload stored, the activation has
\* issued exactly k image upload requests, one per file, and no audio upload
\* request, and its one POST carries image-urls with the k URLs separated by
\* commas and no audio-url
C9_ImagesOnly ==
  \A r \in Runs :
    LET log == run[r].log
        k == Len(files)
    IN (/\ run[r].pc = "sending" /\ ~run[r].touched /\ ~run[r].hadBlob
        /\ k > 0
        /\ \A i \in 1..Len(log) : log[i].ok) =>
         /\ Len(log) = k
         /\ \A i \in 1..k : log[i].kind = "image" /\ log[i].of = files[i].id
         /\ Cardinality({q \in net : q.run = r}) = 1
         /\ \A q \in net :
              q.run = r =>
                /\ q.kind = "submit"
                /\ "audio-url" \notin DOMAIN q.body
                /\ "image-urls" \in DOMAIN q.body
                /\ q.body["image-urls"] =
                     Join([i \in 1..k |-> Url("image", files[i].id)])
                /\ Len(q.body["image-urls"]) = 2 * k - 1
                /\ Cardinality({i \in 1..(2 * k - 1) :
                                  q.body["image-urls"][i] = Comma}) = k - 1

\* C9: the POST is in flight with the URLs of two selected images
C9_Witness ==
  \E q \in net :
    /\ q.kind = "submit"
    /\ ~run[q.run].touched /\ ~run[q.run].hadBlob
    /\ Len(files) = 2
    /\ Len(run[q.run].log) = 2
    /\ run[q.run].log[1].ok /\ run[q.run].log[2].ok
    /\ Len(q.body["image-urls"]) = 3

\* C10: the step that resumes the handler with a failed POST (a failure
\* status or a network error) shows the alert, enables the submit button,
\* restores its label, does not navigate, ends the activation, and leaves the
\* recorder and the uploader with their displays as they were
C10_FailedPostRestoresForm ==
  [][\A r \in Runs :
       (run[r].pc = "sending" /\ run'[r].pc # "sending"
        /\ lastPost' \in {"fail", "neterr"}) =>
          /\ AlertSubmit \in alerts'
          /\ ~submitDisabled'
          /\ submitText' = LabelIdle
          /\ location' = FormPage
          /\ run'[r].pc = "idle"
          /\ UNCHANGED <<recorderVars, uploaderVars, recUI, timeLabel>>]_vars

\* C10: the form after a failed POST, the artifact and the selection in place
C10_Witness ==
  /\ lastPost \in {"fail", "neterr"}
  /\ \A r \in Runs : run[r].pc = "idle"
  /\ AlertSubmit \in alerts
  /\ ~submitDisabled /\ submitText = LabelIdle
  /\ location = FormPage
  /\ audioBlob # NULL
  /\ Len(files) > 0

(***************************************************************************)
(* Invariants of the recorder's and the uploader's data.                   *)
(***************************************************************************)
\* C11: a non-null uploaded URL is the URL a successful upload of the
\* artifact the recorder now holds returned: there is an artifact, and the
\* URL is the one of that artifact
C11_UploadedUrlIsCurrent ==
  uploadedUrl # NULL =>
    (audioBlob # NULL /\ uploadedUrl = Url("audio", audioBlob.id))

\* C12: an artifact and its playback reference come into being only in the
\* step of a stop event (the step that takes a capture session's stop task),
\* and the playback reference is always that of the artifact held
C12_ArtifactOnlyByStopEvent ==
  /\ [](audioUrl # NULL => (audioBlob # NULL /\ audioUrl = ObjectUrl(audioBlob)))
  /\ [][(audioBlob' # audioBlob /\ audioBlob' # NULL) =>
          (stopTasks # <<>> /\ stopTasks' = Tail(stopTasks))]_vars

\* C12: an artifact with its playback reference, every stop event delivered
C12_Witness ==
  /\ audioBlob # NULL
  /\ audioUrl = ObjectUrl(audioBlob)
  /\ stopTasks = <<>>
  /\ ~isRecording

\* C13: after an uploadAll() during which the selection was not changed, a
\* removeFile step removes from the uploaded URLs exactly the URL of the file
\* it removes and keeps the others in order
C13_RemoveKeepsOtherUrls ==
  [][(/\ Len(files') = Len(files) - 1
      /\ \A r \in Runs : run[r].pc # "images" /\ ~run[r].touched) =>
       \A i \in 1..Len(files) :
         files' = Splice1(files, i) =>
           LET IsOther(u) == u # Url("image", files[i].id)
           IN uploadedUrls' = SelectSeq(uploadedUrls, IsOther)]_vars

\* C14: a capture session the recorder holds is one that a successful init()
\* built, handlers and analysis tap included: an init() that failed has left
\* none behind
C14_FailedInitHoldsNothing ==
  mediaRecorder # None => (sessions[mediaRecorder].wired /\ analyser # None)

(***************************************************************************)
(* Properties of the form's validation.                                    *)
(***************************************************************************)
\* C15: while a required field is empty no activation of the submit handler
\* starts; a blocked submit attempt issues no request and leaves the handler
\* and the button alone; and without an activation no request is in flight
C15_ValidationBlocksSubmit ==
  /\ []((\A r \in Runs : run[r].pc = "idle") => net = {})
  /\ [][/\ ~form.valid =>
             (/\ submits' = submits
              /\ \A r \in Runs : run[r].pc = "idle" => run'[r].pc = "idle")
        /\ form'.blocked # form.blocked =>
             UNCHANGED <<run, net, submitDisabled, submitText, uploadedUrl,
                         uploadedUrls>>]_vars

\* C15: a submit attempt was blocked with an artifact and an image at hand,
\* and nothing was sent
C15_Witness ==
  /\ form.blocked > 0
  /\ ~form.valid
  /\ audioBlob # NULL
  /\ Len(files) > 0
  /\ submits = 0
  /\ net = {}

(***************************************************************************)
(* Properties of the serverless functions.                                 *)
(***************************************************************************)
UploadHandlers == {i \in 1..Len(server.handlers) : server.handlers[i].api = "upload"}
SubmitHandlers == {i \in 1..Len(server.handlers) : server.handlers[i].api = "submit"}

\* C16: the storage handler sends at most one response, and exactly one once
\* it has finished; the response is 200 with the URL of the stored blob under
\* url only if the file was stored, 405 for a method other than POST, 400
\* when the parsed request has no file, 500 when parsing, reading or storing
\* failed, and no response other than the 200 carries a URL.
C16_OneResponsePerUpload ==
  \A i \in UploadHandlers :
    LET h == server.handlers[i]
    IN /\ Len(h.responses) <= 1
       /\ (h.pc = "done") <=> (Len(h.responses) = 1)
       /\ h.pc = "done" =>
            LET a == h.responses[1]
            IN /\ a.status \in {200, 400, 405, 500}
               /\ a.status = 200 =>
                    (h.stored /\ a.url = BlobUrl(h.filename) /\ a.url # NULL)
               /\ a.status # 200 => a.url = NULL
               /\ ~h.stored => a.status # 200
               /\ (a.status = 405) <=> (h.req.method # "POST")
               /\ (a.status = 500) <=> (h.error # "")
               /\ (a.status = 400) <=>
                    (h.req.method = "POST" /\ h.error = "" /\ h.req.file = NULL)
C16_Witness ==
  \E i, j \in UploadHandlers :
    /\ server.handlers[i].pc = "done" /\ server.handlers[i].responses[1].status = 200
    /\ server.handlers[j].pc = "done" /\ server.handlers[j].error = "put"

\* C17: the submission handler sends at most one response, and exactly one
\* once it has finished; the response is the redirect to /thank-you.html if
\* and only if the email provider accepted the email; a parse failure, a
\* rejection by the provider and an unreachable provider are answered with
\* 500; a request with a method other than POST is answered with 405 and no
\* email is handed to the provider for it.
C17_RedirectIffAccepted ==
  \A i \in SubmitHandlers :
    LET h == server.handlers[i]
    IN /\ Len(h.responses) <= 1
       /\ (h.pc = "done") <=> (Len(h.responses) = 1)
       /\ h.req.method # "POST" => (h.mail = NULL /\ h.provider = "")
       /\ h.provider # "" => h.mail # NULL
       /\ h.pc = "done" =>
            LET a == h.responses[1]
            IN /\ (a.status = 302) <=> (h.provider = "accepted")
               /\ a.status = 302 => a.location = ThankYou
               /\ h.req.method # "POST" => a.status = 405
               /\ (h.error = "parse" \/ h.provider \in {"rejected", "unreachable"}) =>
                    a.status = 500
C17_Witness ==
  \E i, j \in SubmitHandlers :
    /\ server.handlers[i].pc = "done" /\ server.handlers[i].provider = "accepted"
    /\ server.handlers[j].pc = "done" /\ server.handlers[j].provider = "rejected"

\* C18: every stored file lies in the directory intake/image/ or
\* intake/audio/, whatever type field the request carried.
C18_StoredUnderKnownPrefix ==
  \A b \in 1..Len(server.blobs) :
    server.blobs[b].dir \in {"intake/image/", "intake/audio/"}

\* C19: every email the provider accepted is from
\* Intake Form <intake@sailorskills.com>, to brian@sailorskills.com, and has
\* the subject New Project Inquiry: followed by the company name.
C19_NotificationEmail ==
  \A i \in SubmitHandlers :
    LET h == server.handlers[i]
    IN h.provider = "accepted" =>
         /\ h.mail.from = "Intake Form <intake@sailorskills.com>"
         /\ h.mail.to = <<"brian@sailorskills.com">>
         /\ h.req.company # "" =>
              h.mail.subject = "New Project Inquiry: " \o h.req.company

(***************************************************************************)
(* Properties of a whole run of the submit handler.                        *)
(***************************************************************************)
InFlight(r) == run[r].pc \in {"audio", "images", "sending"}
LabelOrders ==
  {<<>>, <<LabelUploading>>, <<LabelUploading, LabelImages>>,
   <<LabelUploading, LabelSending>>,
   <<LabelUploading, LabelImages, LabelSending>>}

\* C20: with every request in flight answered at some time, every run of
\* the submit handler ends, either navigated or failed; a failed run leaves
\* the button enabled with its idle label on the form page and a navigated
\* one has set the location to the confirmation page; the labels a run
\* assigns are 'Uploading files...', then 'Uploading images...' exactly when
\* files are selected as the run reaches the image uploads, then
\* 'Sending...', the button showing the latest one; and the button is
\* disabled only during a run or after one has navigated.
C20_SubmitRunEnds ==
  /\ \A r \in Runs : InFlight(r) ~> (run[r].pc \in {"idle", "navigated"})
  /\ [](\A r \in Runs :
          /\ run[r].labels \in LabelOrders
          /\ InFlight(r) =>
               (/\ run[r].labels # <<>>
                /\ submitText = run[r].labels[Len(run[r].labels)]
                /\ (run[r].pc = "sending") <=>
                     (run[r].labels[Len(run[r].labels)] = LabelSending))
          /\ run[r].pc = "navigated" => location = ThankYou)
  /\ [](submitDisabled => ((\E r \in Runs : InFlight(r)) \/ location = ThankYou))
  /\ [][\A r \in Runs :
          /\ (InFlight(r) /\ run'[r].pc = "idle") =>
               (~submitDisabled' /\ submitText' = LabelIdle /\ location' = FormPage
                /\ AlertSubmit \in alerts')
          /\ (run[r].pc \in {"idle", "audio"} /\ run'[r].pc \in {"images", "sending"}) =>
               ((\E k \in 1..Len(run'[r].labels) : run'[r].labels[k] = LabelImages)
                  <=> (Len(files) > 0))]_vars
C20_Witness ==
  \E r \in Runs :
    /\ run[r].pc = "navigated"
    /\ run[r].labels = <<LabelUploading, LabelImages, LabelSending>>
    /\ Len(run[r].log) >= 2
    /\ submitDisabled

C22_NoAutomaticRetry ==
  /\ [](\A r \in Runs :
          LET log == run[r].log
              mine == {q \in net : q.run = r}
              Tried(kind, id) ==
                Cardinality({i \in 1..Len(log) : log[i].kind = kind /\ log[i].of = id})
                + Cardinality({q \in mine : q.kind = kind /\ q.body.id = id})
          IN /\ \A i \in 1..Len(log) : Tried(log[i].kind, log[i].of) = 1
             /\ \A q \in mine : q.kind # "submit" => Tried(q.kind, q.body.id) = 1
             /\ Cardinality({q \in mine : q.kind = "submit"}) <= 1
             /\ (run[r].pc = "sending" /\ ~run[r].touched) =>
                  /\ Cardinality({i \in 1..Len(log) : log[i].kind = "audio"})
                       = IF run[r].hadBlob THEN 1 ELSE 0
                  /\ \A j \in 1..Len(files) : Tried("image", files[j].id) = 1)
  /\ [][/\ \A r \in Runs :
             (run[r].pc = "sending" /\ run'[r].pc = "idle") => net' \subseteq net
        /\ (submits' # submits /\ audioBlob # NULL) =>
             \E q \in net' \ net : q.kind = "audio" /\ q.body = audioBlob]_vars

\* C22: after a failed POST a second activation has reached its POST, having
\* uploaded the artifact and the selected file again
C22_Witness ==
  \E q \in net :
    LET log == run[q.run].log
    IN /\ q.kind = "submit"
       /\ submits = 2
       /\ lastPost \in {"fail", "neterr"}
       /\ ~run[q.run].touched /\ run[q.run].hadBlob
       /\ Len(files) = 1
       /\ Len(log) = 2
       /\ log[1].kind = "audio" /\ log[1].ok
       /\ log[2].kind = "image" /\ log[2].ok /\ log[2].of = files[1].id
       /\ takes = 1

\* C23: when the audio upload of an activation completes after clear() has
\* emptied the recorder (no artifact, no playback reference, no uploaded
\* URL), the completion leaves those three as they are.
C23_ClearedStateSurvivesUpload ==
  [][\A r \in Runs :
       (/\ run[r].pc = "audio" /\ run'[r].pc # "audio"
        /\ audioBlob = NULL /\ audioUrl = NULL /\ uploadedUrl = NULL) =>
          UNCHANGED <<audioBlob, audioUrl, uploadedUrl>>]_vars

(***************************************************************************)
(* Properties of the recorder's chunks, display and upload.                *)
(***************************************************************************)
\* C24: the artifact of a recording is made of chunks of that recording
\* only, in the order they were delivered: its timeslice chunks with data,
\* then, if it has data, the final one.
C24_ArtifactOfOneRecording ==
  audioBlob # NULL =>
    LET c == audioBlob.chunks
    IN /\ \A i \in 1..Len(c) : c[i].take = audioBlob.id
       /\ \A i \in 1..Len(c) : c[i].n = (IF i = Len(c) /\ c[i].n = 0 THEN 0 ELSE i)

\* C25: in every state the record button shows its stop face and the
\* recording status is visible exactly when isRecording, and the playback
\* element is visible exactly when there is a playback reference.
C25_DisplayProjectsState ==
  /\ (recUI.btn = BtnStop) <=> isRecording
  /\ (~recUI.statusHidden) <=> isRecording
  /\ (~recUI.previewHidden) <=> (audioUrl # NULL)

\* C26: the upload request for an artifact names the file recording.m4a
\* when the artifact's type has the part mp4, recording.ogg when it has the
\* part ogg and not mp4, recording.webm for every other type, and carries
\* the type field "audio"; the step that answers it shows no alert and lets
\* the handler go on, with the URL of the response as upload()'s result and
\* as the recorder's uploaded URL when the answer is a success, and with
\* null as the result and the uploaded URL as it was otherwise.
C26_UploadNamesByType ==
  /\ [](\A q \in net :
          q.kind = "audio" =>
            /\ q.fields.type = "audio"
            /\ q.body.type = AudioMp4 => q.fields.name = <<"recording", ".", "m4a">>
            /\ q.body.type = AudioOgg => q.fields.name = <<"recording", ".", "ogg">>
            /\ q.body.type \in {AudioWebm, AudioWav} =>
                 q.fields.name = <<"recording", ".", "webm">>)
  /\ [][\A r \in Runs :
          (run[r].pc = "audio" /\ run'[r].pc # "audio") =>
            LET e == run'[r].log[Len(run'[r].log)]
            IN /\ alerts' = alerts
               /\ run'[r].pc \in {"images", "sending"}
               /\ e.kind = "audio"
               /\ e.ok => (/\ run'[r].audioUrl = Url("audio", e.of)
                           /\ uploadedUrl' = Url("audio", e.of))
               /\ ~e.ok => (run'[r].audioUrl = NULL /\ uploadedUrl' = uploadedUrl)]_vars

\* C26: an artifact of type audio/mp4 has been uploaded and its URL stored
C26_Witness ==
  /\ audioBlob # NULL
  /\ audioBlob.type = AudioMp4
  /\ uploadedUrl = Url("audio", audioBlob.id)
  /\ \E r \in Runs : run[r].pc = "sending" /\ run[r].audioUrl = uploadedUrl

\* C27: at the step where uploadAll() returns to the handler, whatever was
\* added to or removed from the selection meanwhile, every file now selected
\* has been sent in exactly one upload request of this activation, and the
\* returned sequence has no URL of a file that has been removed.
C27_SelectionChangesKeepBatch ==
  [][\A r \in Runs :
       (run[r].pc = "images" /\ run'[r].pc = "sending") =>
         LET log == run'[r].log
         IN /\ \A j \in 1..Len(files') :
                 Cardinality({i \in 1..Len(log) :
                                log[i].kind = "image" /\ log[i].of = files'[j].id}) = 1
            /\ \A f \in removed' : \A i \in 1..Len(uploadedUrls') :
                 uploadedUrls'[i] # Url("image", f.id)]_vars

\* C28: at most one capture session is recording at any time; while a
\* recording is shown as in progress the capture session the recorder holds,
\* the one stop() would halt, is the recording one with its handlers
\* assigned; and while none is shown no capture session is recording.
C28_OneLiveSession ==
  LET live == {m \in 1..Len(sessions) : sessions[m].state = "recording"}
  IN /\ Cardinality(live) <= 1
     /\ isRecording => (live = {mediaRecorder} /\ sessions[mediaRecorder].wired)
     /\ ~isRecording => live = {}

(***************************************************************************)
(* Properties of the email.                                                *)
(***************************************************************************)
\* C29: in the email built for a POST of the page, the links of the images
\* section are the URLs uploadAll() returned, in the same order, the count of
\* its heading is their number, the images section is there exactly when
\* image-urls was sent non-empty and the voice recording section exactly
\* when audio-url was.
C29_UrlsSurviveRoundTrip ==
  \A i \in SubmitHandlers :
    LET h == server.handlers[i]
    IN h.mail # NULL =>
         /\ h.mail.html.urls = h.req.returned
         /\ h.mail.html.count = Len(h.req.returned)
         /\ h.mail.html.images <=> (h.req.images # <<>>)
         /\ h.mail.html.voice <=> (h.req.audio # <<>>)

====
